---------------------------- MODULE Spec2Model ----------------------------
(***************************************************************************)
(* Model of "Python Codes/generatedistillBert.py": a straight-line script  *)
(* that loads a pretrained DistilBERT question-answering model, wraps it   *)
(* in DistilBERTQAWrapper, exports the wrapper as a SavedModel, converts   *)
(* the export with the TFLite converter and writes the result to disk.     *)
(*                                                                         *)
(* Two behaviours are modelled:                                            *)
(*   Spec      the run of the script, one action per statement; every call *)
(*             into an external library either returns or raises;          *)
(*   CallSpec  invocations of DistilBERTQAWrapper.call on concrete tensors *)
(*             (what a consumer of the exported model executes).           *)
(* FairSpec is Spec with the fairness of a running interpreter.            *)
(***************************************************************************)
EXTENDS Integers, Sequences, FiniteSets, TLC

VARIABLES
    \* ---- the script's run -------------------------------------------
    pc,             \* the statement about to execute, "done" or "failed"
    model_name,     \* line 5
    tokenizer,      \* line 6
    model,          \* line 7
    wrapped_model,  \* line 39
    converter,      \* line 45
    tflite_model,   \* line 47
    f,              \* the file object of the with-statement, line 50
    fs,             \* the disk: path -> entry
    fs0,            \* the disk as it was when the script started
    hub,            \* the weights the model hub serves for model_name
    err,            \* the statement whose exception ended the run
    count,          \* statement -> number of times it has started
    \* ---- invocations of the wrapper ---------------------------------
    nan_cast,       \* what this build's float->int32 cast yields for NaN
    args,           \* invocation -> the three tensors passed to call
    input_ids_int,  \* invocation -> local of call, line 23
    attention_mask_int, \* invocation -> local of call, line 24
    received,       \* invocation -> keyword arguments self.model got
    ret             \* invocation -> value returned (or the rejection)

scriptVars == <<pc, model_name, tokenizer, model, wrapped_model, converter,
                tflite_model, f, fs, fs0, hub, err, count>>
callVars == <<nan_cast, args, input_ids_int, attention_mask_int, received, ret>>
vars == <<scriptVars, callVars>>

----------------------------------------------------------------------------
(* Bounds *)

\* The tensors' second dimension; stands for the 384 of lines 17-19.
SeqLen == 2
\* The number of blocks the converted model's bytes are written in.
NumBlocks == 2
\* Saturation of the per-statement start counter.
MaxCount == 2

----------------------------------------------------------------------------
(* Values *)

None == [kind |-> "None"]
Unbound == "<unbound>"

\* line 5
MODEL_NAME == "distilbert-base-uncased-distilled-squad"
\* line 42, first use of the directory name
SAVE_PATH == "distilbert_saved_model"
\* Variant of LOAD_PATH: the converter is pointed at another directory.
LOAD_PATH_typo == "other_saved_model"
\* line 45, second use of the directory name
LOAD_PATH == "distilbert_saved_model"
\* line 50
TFLITE_PATH == "distilbert-squad-384.tflite"
\* a path the script never names
OTHER_PATH == "other_saved_model"

Paths == {SAVE_PATH, TFLITE_PATH, OTHER_PATH}

\* Versions of the weights the hub may serve under the name.
Weights == {"w1", "w2"}

Min(a, b) == IF a < b THEN a ELSE b


----------------------------------------------------------------------------
(* Tensors.  A float32 value is a record: [k |-> "num", h |-> n] is the    *)
(* number n/2 (so h = 3 is 1.5), [k |-> "nan", h |-> 0] is NaN.            *)

Num(h) == [k |-> "num", h |-> h]
NaN == [k |-> "nan", h |-> 0]

\* tf.TensorSpec(shape, dtype, name=name)
TensorSpec(shape, dtype, name) == [shape |-> shape, dtype |-> dtype, name |-> name]

Tensor(dtype, vals) == [dtype |-> dtype, shape |-> <<1, Len(vals)>>, vals |-> vals]

\* The decorator of call, lines 16-20.
input_signature ==
    << TensorSpec(<<1, SeqLen>>, "float32", "input_ids"),
       TensorSpec(<<1, SeqLen>>, "float32", "attention_mask"),
       TensorSpec(<<1, SeqLen>>, "float32", "segment_ids") >>

\* tf.function's check of the arguments against input_signature.
Conforms(a) ==
    /\ Len(a) = Len(input_signature)
    /\ \A i \in 1..Len(a) : /\ a[i].dtype = input_signature[i].dtype
                            /\ a[i].shape = input_signature[i].shape

\* Truncation toward zero of the number h/2.
Trunc(h) == IF h >= 0 THEN h \div 2 ELSE -((-h) \div 2)

\* Variant of CastElem: rounds to the nearest integer instead of truncating.
CastElem_round(x) ==
    IF x.k = "nan" THEN nan_cast
    ELSE IF x.h >= 0 THEN (x.h + 1) \div 2 ELSE -((1 - x.h) \div 2)

\* tf.cast(x, tf.int32) of one float32 element: truncation toward zero; what
\* NaN becomes is left to the build (nan_cast).
CastElem(x) == IF x.k = "nan" THEN nan_cast ELSE Trunc(x.h)

\* tf.cast(t, tf.int32), lines 23-24: elementwise, shape and order kept.
tf_cast_int32(t) ==
    [dtype |-> "int32", shape |-> t.shape,
     vals |-> [i \in DOMAIN t.vals |-> CastElem(t.vals[i])]]

\* self.model(input_ids=..., attention_mask=...), lines 27-30.  The model is
\* opaque and deterministic: each logit tensor is the uninterpreted term of
\* the head, the weights and the keyword arguments received.
RunModel(m, kwargs) ==
    [start_logits |-> [head |-> "start_logits", of |-> m, kwargs |-> kwargs],
     end_logits   |-> [head |-> "end_logits",   of |-> m, kwargs |-> kwargs]]

\* DistilBERTQAWrapper.__init__, lines 11-13.
DistilBERTQAWrapper(m) == [kind |-> "wrapper", model |-> m]

\* Variant of call: the two logits are returned under each other's key.
call_swapped(self, input_ids, attention_mask, segment_ids) ==
    LET ids_int  == tf_cast_int32(input_ids)
        mask_int == tf_cast_int32(attention_mask)
        kwargs   == [input_ids |-> ids_int, attention_mask |-> mask_int]
        outputs  == RunModel(self.model, kwargs)
    IN  [input_ids_int      |-> ids_int,
         attention_mask_int |-> mask_int,
         received           |-> kwargs,
         ret |-> [start_logits |-> outputs.end_logits,
                  end_logits   |-> outputs.start_logits]]

\* Variant of call: segment_ids reaches the wrapped model, as its mask.
call_segment_as_mask(self, input_ids, attention_mask, segment_ids) ==
    LET ids_int  == tf_cast_int32(input_ids)
        mask_int == tf_cast_int32(segment_ids)
        kwargs   == [input_ids |-> ids_int, attention_mask |-> mask_int]
        outputs  == RunModel(self.model, kwargs)
    IN  [input_ids_int      |-> ids_int,
         attention_mask_int |-> mask_int,
         received           |-> kwargs,
         ret |-> [start_logits |-> outputs.start_logits,
                  end_logits   |-> outputs.end_logits]]

\* The body of DistilBERTQAWrapper.call, lines 21-36: its locals and the
\* dictionary it returns.
call(self, input_ids, attention_mask, segment_ids) ==
    LET ids_int  == tf_cast_int32(input_ids)
        mask_int == tf_cast_int32(attention_mask)
        kwargs   == [input_ids |-> ids_int, attention_mask |-> mask_int]
        outputs  == RunModel(self.model, kwargs)
    IN  [input_ids_int      |-> ids_int,
         attention_mask_int |-> mask_int,
         received           |-> kwargs,
         ret |-> [start_logits |-> outputs.start_logits,
                  end_logits   |-> outputs.end_logits]]


----------------------------------------------------------------------------
(* The disk and the library objects the script handles. *)

Absent == [kind |-> "absent"]
PartialDir == [kind |-> "partial_dir"]
File(bytes) == [kind |-> "file", bytes |-> bytes]

\* The tensors tf.saved_model.save traces call with: one per TensorSpec.
Placeholder(spec) == [dtype |-> spec.dtype, shape |-> spec.shape,
                      vals |-> [i \in 1..spec.shape[2] |-> Num(0)]]

\* The serving signature of an exported object: for the wrapper, the inputs
\* of the decorator (lines 16-20) and the keys of the dictionary that the
\* traced call returns (lines 33-36); a bare Keras model has none.
SignatureOf(obj) ==
    IF obj.kind = "wrapper"
    THEN [inputs  |-> input_signature,
          outputs |-> DOMAIN call(obj, Placeholder(input_signature[1]),
                                       Placeholder(input_signature[2]),
                                       Placeholder(input_signature[3])).ret]
    ELSE [inputs |-> <<>>, outputs |-> {}]

\* What tf.saved_model.save(obj, path) leaves at path.
SavedModelOf(obj) == [kind |-> "saved_model", obj |-> obj,
                      signature |-> SignatureOf(obj)]

\* Entries found on the disk from earlier runs or other programs.
StaleSavedModel == SavedModelOf([kind |-> "model", name |-> "stale", weights |-> "w0"])
OldFile == File(<<"old">>)

\* tf.lite.TFLiteConverter.from_saved_model(path), line 45: a converter with
\* the library's defaults (no optimizations, builtin ops only).
NewConverter(path) ==
    [kind |-> "converter", saved_model_dir |-> path,
     supported_ops |-> {"TFLITE_BUILTINS"}, optimizations |-> {}]

\* Variant of WithSupportedOps: the statement also asks for the default
\* optimization (quantization).
WithSupportedOps_quantize(cv) ==
    [cv EXCEPT !.supported_ops = {"TFLITE_BUILTINS", "SELECT_TF_OPS"},
               !.optimizations = {"DEFAULT"}]

\* converter.supported_ops = [...], line 46.
WithSupportedOps(cv) ==
    [cv EXCEPT !.supported_ops = {"TFLITE_BUILTINS", "SELECT_TF_OPS"}]

\* The model converter.convert() builds from the SavedModel sm (line 47):
\* the exported graph and signature, quantized only if an optimization is set.
FlatBuffer(sm, cv) ==
    [graph |-> sm.obj, signature |-> sm.signature,
     ops |-> cv.supported_ops, quantized |-> cv.optimizations # {}]

\* Its serialization: NumBlocks blocks of bytes.
Serialize(fb) == [i \in 1..NumBlocks |-> [block |-> i, of |-> fb]]

----------------------------------------------------------------------------
(* The run of the script: one action per statement. *)

Statements == << "model_name", "tokenizer", "model", "class", "wrapped_model",
                 "save", "from_saved_model", "supported_ops", "convert",
                 "open", "write" >>
StatementSet == {Statements[i] : i \in 1..Len(Statements)}

Idx(s) == CHOOSE i \in 1..Len(Statements) : Statements[i] = s

\* The statement after s in the source, "done" after the last.
Following(s) == IF Idx(s) = Len(Statements) THEN "done" ELSE Statements[Idx(s) + 1]

\* A statement starts.
Begin(s) == /\ pc = s
            /\ count' = [count EXCEPT ![s] = Min(@ + 1, MaxCount)]

\* A statement completes; control falls through to the next one.
Goto(next) == pc' = next /\ err' = err

\* Variant of Raise: the exception is swallowed and the script goes on.
Raise_swallow(s) == pc' = Following(s) /\ err' = s

\* Variant of Raise: the failed statement is tried again.
Raise_retry(s) == pc' = s /\ err' = s

\* Variant of Raise: on a failure the script starts over.
Raise_restart(s) == pc' = "model_name" /\ err' = err

\* A statement raises; nothing catches it and the interpreter exits.
Raise(s) == pc' = "failed" /\ err' = s

\* line 5
AssignModelName ==
    /\ Begin("model_name")
    /\ model_name' = MODEL_NAME
    /\ Goto("tokenizer")
    /\ UNCHANGED <<tokenizer, model, wrapped_model, converter, tflite_model,
                   f, fs, fs0, hub, callVars>>

\* line 6
LoadTokenizer ==
    /\ Begin("tokenizer")
    /\ \/ /\ tokenizer' = [kind |-> "tokenizer", name |-> model_name]
          /\ Goto("model")
       \/ /\ Raise("tokenizer")
          /\ UNCHANGED tokenizer
    /\ UNCHANGED <<model_name, model, wrapped_model, converter, tflite_model,
                   f, fs, fs0, hub, callVars>>

\* line 7
LoadModel ==
    /\ Begin("model")
    /\ \/ /\ model' = [kind |-> "model", name |-> model_name, weights |-> hub]
          /\ Goto("class")
       \/ /\ Raise("model")
          /\ UNCHANGED model
    /\ UNCHANGED <<model_name, tokenizer, wrapped_model, converter, tflite_model,
                   f, fs, fs0, hub, callVars>>

\* lines 10-36: the class statement binds DistilBERTQAWrapper.
DefineWrapperClass ==
    /\ Begin("class")
    /\ Goto("wrapped_model")
    /\ UNCHANGED <<model_name, tokenizer, model, wrapped_model, converter,
                   tflite_model, f, fs, fs0, hub, callVars>>

\* line 39
WrapModel ==
    /\ Begin("wrapped_model")
    /\ wrapped_model' = DistilBERTQAWrapper(model)
    /\ Goto("save")
    /\ UNCHANGED <<model_name, tokenizer, model, converter, tflite_model,
                   f, fs, fs0, hub, callVars>>

\* Variant of SaveModel: the export also leaves a scratch directory behind.
SaveModel_scratch ==
    /\ Begin("save")
    /\ \/ /\ fs' = [fs EXCEPT ![SAVE_PATH] = SavedModelOf(wrapped_model),
                              ![OTHER_PATH] = PartialDir]
          /\ Goto("from_saved_model")
       \/ /\ Raise("save")
          /\ \/ UNCHANGED fs
             \/ fs' = [fs EXCEPT ![SAVE_PATH] = PartialDir]
    /\ UNCHANGED <<model_name, tokenizer, model, wrapped_model, converter,
                   tflite_model, f, fs0, hub, callVars>>

\* line 42: the export writes (or overwrites) the directory; a failed export
\* leaves it as it was or partly written.
SaveModel ==
    /\ Begin("save")
    /\ \/ /\ fs' = [fs EXCEPT ![SAVE_PATH] = SavedModelOf(wrapped_model)]
          /\ Goto("from_saved_model")
       \/ /\ Raise("save")
          /\ \/ UNCHANGED fs
             \/ fs' = [fs EXCEPT ![SAVE_PATH] = PartialDir]
    /\ UNCHANGED <<model_name, tokenizer, model, wrapped_model, converter,
                   tflite_model, f, fs0, hub, callVars>>

\* line 45: succeeds only on a directory that holds a SavedModel.
FromSavedModel ==
    /\ Begin("from_saved_model")
    /\ \/ /\ fs[LOAD_PATH].kind = "saved_model"
          /\ converter' = NewConverter(LOAD_PATH)
          /\ Goto("supported_ops")
       \/ /\ Raise("from_saved_model")
          /\ UNCHANGED converter
    /\ UNCHANGED <<model_name, tokenizer, model, wrapped_model, tflite_model,
                   f, fs, fs0, hub, callVars>>

\* line 46
SetSupportedOps ==
    /\ Begin("supported_ops")
    /\ converter' = WithSupportedOps(converter)
    /\ Goto("convert")
    /\ UNCHANGED <<model_name, tokenizer, model, wrapped_model, tflite_model,
                   f, fs, fs0, hub, callVars>>

\* line 47
Convert ==
    /\ Begin("convert")
    /\ \/ /\ fs[converter.saved_model_dir].kind = "saved_model"
          /\ tflite_model' =
                 Serialize(FlatBuffer(fs[converter.saved_model_dir], converter))
          /\ Goto("open")
       \/ /\ Raise("convert")
          /\ UNCHANGED tflite_model
    /\ UNCHANGED <<model_name, tokenizer, model, wrapped_model, converter,
                   f, fs, fs0, hub, callVars>>

\* Variant of OpenFile: the file is opened for appending ("ab").
OpenFile_append ==
    /\ Begin("open")
    /\ \/ /\ fs' = [fs EXCEPT ![TFLITE_PATH] =
                       IF @.kind = "file" THEN @ ELSE File(<<>>)]
          /\ f' = "open"
          /\ Goto("write")
       \/ /\ Raise("open")
          /\ UNCHANGED <<fs, f>>
    /\ UNCHANGED <<model_name, tokenizer, model, wrapped_model, converter,
                   tflite_model, fs0, hub, callVars>>

\* line 50: open(..., "wb") creates the file or truncates it.
OpenFile ==
    /\ Begin("open")
    /\ \/ /\ fs' = [fs EXCEPT ![TFLITE_PATH] = File(<<>>)]
          /\ f' = "open"
          /\ Goto("write")
       \/ /\ Raise("open")
          /\ UNCHANGED <<fs, f>>
    /\ UNCHANGED <<model_name, tokenizer, model, wrapped_model, converter,
                   tflite_model, fs0, hub, callVars>>

\* line 51 and the end of the with-block: the bytes are written and the file
\* is closed; a failed write leaves a prefix of them, and the file is closed
\* all the same.
WriteFile ==
    /\ Begin("write")
    /\ f = "open"
    /\ f' = "closed"
    /\ \/ /\ fs' = [fs EXCEPT ![TFLITE_PATH] = File(fs[TFLITE_PATH].bytes \o tflite_model)]
          /\ Goto("done")
       \/ /\ Raise("write")
          /\ \E k \in 0..Len(tflite_model) :
                fs' = [fs EXCEPT ![TFLITE_PATH] =
                          File(fs[TFLITE_PATH].bytes \o SubSeq(tflite_model, 1, k))]
    /\ UNCHANGED <<model_name, tokenizer, model, wrapped_model, converter,
                   tflite_model, fs0, hub, callVars>>

Next ==
    \/ AssignModelName
    \/ LoadTokenizer
    \/ LoadModel
    \/ DefineWrapperClass
    \/ WrapModel
    \/ SaveModel
    \/ FromSavedModel
    \/ SetSupportedOps
    \/ Convert
    \/ OpenFile
    \/ WriteFile

\* Invocations of the wrapper: two, indexed 1 and 2.
Calls == {1, 2}

\* No invocation is in play while the script runs.
CallsIdle ==
    /\ nan_cast = 0
    /\ args = [c \in Calls |-> <<>>]
    /\ input_ids_int = [c \in Calls |-> None]
    /\ attention_mask_int = [c \in Calls |-> None]
    /\ received = [c \in Calls |-> None]
    /\ ret = [c \in Calls |-> None]

\* The disks the script may start on.
InitialDisks ==
    { [p \in Paths |-> IF p = SAVE_PATH THEN d ELSE IF p = OTHER_PATH THEN o ELSE t] :
        d \in {Absent, StaleSavedModel}, o \in {Absent, StaleSavedModel},
        t \in {Absent, OldFile} }

Init ==
    /\ pc = "model_name"
    /\ model_name = Unbound
    /\ tokenizer = None
    /\ model = None
    /\ wrapped_model = None
    /\ converter = None
    /\ tflite_model = <<>>
    /\ f = "unbound"
    /\ fs \in InitialDisks
    /\ fs0 = fs
    /\ hub \in Weights
    /\ err = "none"
    /\ count = [s \in StatementSet |-> 0]
    /\ CallsIdle

Spec == Init /\ [][Next]_vars

\* The interpreter keeps executing statements until the script ends.
FairSpec == Spec /\ WF_vars(Next)


----------------------------------------------------------------------------
(* Invocations of DistilBERTQAWrapper.call on concrete tensors. *)

\* float32 elements given as token ids (1.0, 1.5, -0.5, NaN), as mask values
\* and as segment ids (0.0, 1.0).
IdValues == {Num(2), Num(3), Num(-1), NaN}
MaskValues == {Num(0), Num(2)}
SegValues == {Num(0), Num(2)}

FloatTensors(V) == {Tensor("float32", v) : v \in [1..SeqLen -> V]}

\* Arguments the input signature does not admit: a wrong dtype, a wrong shape.
Malformed == { [dtype |-> "int32", shape |-> <<1, SeqLen>>,
                vals |-> [i \in 1..SeqLen |-> Num(2)]],
               Tensor("float32", [i \in 1..SeqLen + 1 |-> Num(2)]) }

\* What the build's cast makes of NaN: 0 or the least int32.
NaNCasts == {0, -2147483647 - 1}

\* tf.function raised on arguments outside the input signature.
Rejected == [kind |-> "ValueError"]

\* The script's state once line 39 has run, on an empty disk, with one of
\* the hub's versions of the weights loaded (the wrapped model is opaque to
\* call, so one version stands for all).
Wrapped ==
    /\ pc = "save"
    /\ model_name = MODEL_NAME
    /\ tokenizer = [kind |-> "tokenizer", name |-> MODEL_NAME]
    /\ hub = CHOOSE w \in Weights : TRUE
    /\ model = [kind |-> "model", name |-> MODEL_NAME, weights |-> hub]
    /\ wrapped_model = DistilBERTQAWrapper(model)
    /\ converter = None
    /\ tflite_model = <<>>
    /\ f = "unbound"
    /\ fs = [p \in Paths |-> Absent]
    /\ fs0 = fs
    /\ err = "none"
    /\ count = [s \in StatementSet |->
                  IF s \in {Statements[i] : i \in 1..5} THEN 1 ELSE 0]

\* The two invocations are given the same input_ids and attention_mask and
\* each its own segment_ids.
CallInit ==
    /\ Wrapped
    /\ nan_cast \in NaNCasts
    /\ \E ids \in FloatTensors(IdValues) \cup Malformed,
          mask \in FloatTensors(MaskValues),
          seg \in [Calls -> FloatTensors(SegValues)] :
            args = [c \in Calls |-> <<ids, mask, seg[c]>>]
    /\ input_ids_int = [c \in Calls |-> None]
    /\ attention_mask_int = [c \in Calls |-> None]
    /\ received = [c \in Calls |-> None]
    /\ ret = [c \in Calls |-> None]

\* One invocation, lines 16-36: tf.function checks the arguments against the
\* input signature, then runs the body of call.
Invoke(c) ==
    /\ ret[c] = None
    /\ \/ /\ Conforms(args[c])
          /\ LET r == call(wrapped_model, args[c][1], args[c][2], args[c][3])
             IN  /\ input_ids_int' = [input_ids_int EXCEPT ![c] = r.input_ids_int]
                 /\ attention_mask_int' =
                        [attention_mask_int EXCEPT ![c] = r.attention_mask_int]
                 /\ received' = [received EXCEPT ![c] = r.received]
                 /\ ret' = [ret EXCEPT ![c] = r.ret]
       \/ /\ ~Conforms(args[c])
          /\ ret' = [ret EXCEPT ![c] = Rejected]
          /\ UNCHANGED <<input_ids_int, attention_mask_int, received>>
    /\ UNCHANGED <<nan_cast, args, scriptVars>>

CallNext == \E c \in Calls : Invoke(c)

CallSpec == CallInit /\ [][CallNext]_vars


----------------------------------------------------------------------------
(* Properties of the run of the script. *)

Started(s) == count[s] >= 1

\* What a statement leaves behind when it has completed.
Completed(s) ==
    /\ count[s] >= 1
    /\ CASE s = "model_name"       -> model_name = MODEL_NAME
         [] s = "tokenizer"        -> tokenizer # None
         [] s = "model"            -> model # None
         [] s = "class"            -> TRUE
         [] s = "wrapped_model"    -> wrapped_model = DistilBERTQAWrapper(model)
         [] s = "save"             -> fs[SAVE_PATH].kind = "saved_model" /\ err # "save"
         [] s = "from_saved_model" -> converter # None
         [] s = "supported_ops"    -> /\ converter # None
                                      /\ "SELECT_TF_OPS" \in converter.supported_ops
         [] s = "convert"          -> tflite_model # <<>>
         [] s = "open"             -> f # "unbound"
         [] s = "write"            -> f = "closed" /\ err # "write"

Halted == pc \in {"done", "failed"}

\* The five steps of the script and the statements that make them up.
StepOf(s) ==
    CASE s \in {"model_name", "tokenizer", "model"}            -> 1
      [] s \in {"class", "wrapped_model"}                      -> 2
      [] s = "save"                                            -> 3
      [] s \in {"from_saved_model", "supported_ops", "convert"} -> 4
      [] s \in {"open", "write"}                               -> 5

\* C1: the statements, and so the five steps (load, wrap, export, convert,
\* write), run in the order of the source: a statement has started only if
\* every statement before it has completed successfully exactly once, no
\* statement starts twice, and the steps of started statements never decrease
\* along the source order.
C1_FixedOrder ==
    /\ \A s \in StatementSet : count[s] <= 1
    /\ \A s \in StatementSet : Started(s) =>
          \A t \in StatementSet :
              Idx(t) < Idx(s) => /\ Completed(t)
                                 /\ count[t] = 1
                                 /\ StepOf(t) <= StepOf(s)
    /\ pc \in StatementSet =>
          /\ ~Started(pc)
          /\ \A t \in StatementSet : Idx(t) < Idx(pc) => Started(t)
    /\ pc = "done" => \A s \in StatementSet : Completed(s)

\* C1 witness: a complete run, every statement executed once.
C1_Witness == pc = "done" /\ \A s \in StatementSet : count[s] = 1

\* The bytes convert() returns for the converter and the disk as they are.
ConvertResult == Serialize(FlatBuffer(fs[converter.saved_model_dir], converter))

\* C5: the output file is touched by lines 50-51 only, each of which runs at
\* most once and only after convert() has returned; the write is the last
\* statement; after a complete run the file holds exactly the bytes convert()
\* returned.
C5_WrittenOnceAtEnd ==
    /\ count["open"] <= 1 /\ count["write"] <= 1
    /\ ~Started("open") => fs[TFLITE_PATH] = fs0[TFLITE_PATH]
    /\ Started("open") => Completed("convert")
    /\ Started("write") => Halted
    /\ pc = "done" => /\ fs[TFLITE_PATH] = File(tflite_model)
                      /\ tflite_model = ConvertResult

\* C5 witness: a complete run over a file that was there before.
C5_Witness == pc = "done" /\ fs0[TFLITE_PATH] = OldFile /\ count["write"] = 1

\* C6: once a statement has raised, the run has stopped there: that statement
\* started once, no later statement has started or can start, and if the
\* failure is not in the write step (lines 50-51) the output file is as it
\* was before the run.
C6_FailStop ==
    err # "none" =>
        /\ pc = "failed"
        /\ err \in StatementSet
        /\ count[err] = 1
        /\ \A t \in StatementSet : Idx(t) > Idx(err) => count[t] = 0
        /\ ~ENABLED Next
        /\ StepOf(err) <= 4 => fs[TFLITE_PATH] = fs0[TFLITE_PATH]

\* C6 witness: the conversion fails while an older output file is on disk.
C6_Witness == pc = "failed" /\ err = "convert" /\ fs0[TFLITE_PATH] = OldFile

\* C3 as stated: when convert() has been called, the converter was configured
\* to quantize (an optimization was set).
C3_Original == Started("convert") => converter.optimizations # {}

\* C3 amended: when convert() has been called the converter has no
\* optimization set and supported_ops is {TFLITE_BUILTINS, SELECT_TF_OPS};
\* the model it returns is not quantized.
C3_NoQuantization ==
    Started("convert") =>
        /\ converter.optimizations = {}
        /\ converter.supported_ops = {"TFLITE_BUILTINS", "SELECT_TF_OPS"}
        /\ \A i \in 1..Len(tflite_model) :
              /\ ~tflite_model[i].of.quantized
              /\ tflite_model[i].of.ops = {"TFLITE_BUILTINS", "SELECT_TF_OPS"}

\* C3 witness: convert() has returned the model.
C3_Witness == pc = "open" /\ Len(tflite_model) = NumBlocks

\* C4 as stated: after a complete run, no path other than the output file
\* differs from what it was before the run.
C4_Original ==
    pc = "done" => \A p \in Paths : fs[p] # fs0[p] => p = TFLITE_PATH

\* C4 amended: the script writes two paths and no other: a complete run
\* leaves the SavedModel directory of the wrapper and the output file, and
\* every other path is at all times as it was before the run.
C4_TwoArtifacts ==
    /\ \A p \in Paths \ {SAVE_PATH, TFLITE_PATH} : fs[p] = fs0[p]
    /\ pc = "done" => /\ fs[SAVE_PATH] = SavedModelOf(wrapped_model)
                      /\ fs[TFLITE_PATH].kind = "file"

\* C4 witness: a complete run on a disk that held neither artifact.
C4_Witness ==
    /\ pc = "done"
    /\ fs0[SAVE_PATH] = Absent /\ fs0[TFLITE_PATH] = Absent
    /\ fs[SAVE_PATH].kind = "saved_model"

\* C10: the converter reads the directory line 42 wrote, that directory holds
\* the export of the wrapper of this run, and the converted model carries the
\* wrapper's signature: the three inputs of the decorator, the two outputs
\* start_logits and end_logits.
C10_ConvertsTheExport ==
    /\ converter # None =>
          /\ converter.saved_model_dir = SAVE_PATH
          /\ fs[SAVE_PATH] = SavedModelOf(wrapped_model)
    /\ \A i \in 1..Len(tflite_model) :
          /\ tflite_model[i].of.graph = wrapped_model
          /\ tflite_model[i].of.graph.kind = "wrapper"
          /\ Len(tflite_model[i].of.signature.inputs) = 3
          /\ tflite_model[i].of.signature.inputs = input_signature
          /\ tflite_model[i].of.signature.outputs = {"start_logits", "end_logits"}

\* C10 witness: the model was converted on a disk that also held a stale
\* SavedModel.
C10_Witness ==
    /\ Len(tflite_model) = NumBlocks
    /\ fs0[SAVE_PATH] = StaleSavedModel
    /\ fs0[OTHER_PATH] = StaleSavedModel
    /\ pc = "write"

\* C9: every run halts, either at the end with the output file written or
\* at the statement that raised.
C9_Terminates ==
    <>( \/ pc = "done" /\ fs[TFLITE_PATH] = File(tflite_model)
        \/ pc = "failed" /\ err \in StatementSet )

\* C9 witness: the end of the script is reached with the file written.
C9_Witness == pc = "done" /\ fs[TFLITE_PATH] = File(tflite_model) /\ err = "none"


----------------------------------------------------------------------------
(* Properties of the invocations of the wrapper. *)

Invoked(c) == ret[c] # None
Returned(c) == ret[c] # None /\ ret[c] # Rejected

\* C2: an invocation is accepted exactly when it passes three float32
\* tensors of shape [1, SeqLen], named input_ids, attention_mask and
\* segment_ids by the signature; an accepted invocation returns exactly the
\* two keys start_logits and end_logits, bound to the start_logits and the
\* end_logits the wrapped model produced for the arguments it was given.
C2_ThreeInTwoOut ==
    /\ [i \in 1..Len(input_signature) |-> input_signature[i].name]
          = <<"input_ids", "attention_mask", "segment_ids">>
    /\ \A c \in Calls : Invoked(c) =>
          /\ Returned(c) <=>
                /\ Len(args[c]) = 3
                /\ \A i \in 1..3 : /\ args[c][i].dtype = "float32"
                                   /\ args[c][i].shape = <<1, SeqLen>>
          /\ Returned(c) =>
                /\ DOMAIN ret[c] = {"start_logits", "end_logits"}
                /\ ret[c].start_logits =
                      RunModel(wrapped_model.model, received[c]).start_logits
                /\ ret[c].end_logits =
                      RunModel(wrapped_model.model, received[c]).end_logits
                /\ ret[c].start_logits.head = "start_logits"
                /\ ret[c].end_logits.head = "end_logits"

\* C2 witness: an invocation with conforming arguments has returned.
C2_Witness == \E c \in Calls : Returned(c) /\ Conforms(args[c])

\* C7: two invocations with equal input_ids and equal attention_mask return
\* the same start_logits and end_logits whatever their segment_ids, and the
\* wrapped model is given input_ids and attention_mask only.
C7_SegmentIdsIgnored ==
    /\ \A c \in Calls : Returned(c) =>
          DOMAIN received[c] = {"input_ids", "attention_mask"}
    /\ \A c, d \in Calls :
          ( /\ Returned(c) /\ Returned(d)
            /\ args[c][1] = args[d][1]
            /\ args[c][2] = args[d][2] )
          => /\ ret[c].start_logits = ret[d].start_logits
             /\ ret[c].end_logits = ret[d].end_logits

\* C7 witness: both invocations returned, with different segment_ids.
C7_Witness ==
    /\ Returned(1) /\ Returned(2)
    /\ args[1][1] = args[2][1] /\ args[1][2] = args[2][2]
    /\ args[1][3] # args[2][3]

\* The float32 value x is the integer n.
IsInteger(x, n) == x.k = "num" /\ x.h = 2 * n

\* The integer n is the float32 value x with its fraction dropped.
IsTruncation(x, n) ==
    /\ x.k = "num"
    /\ IF x.h >= 0 THEN 2 * n <= x.h /\ x.h < 2 * n + 2
                   ELSE 2 * n - 2 < x.h /\ x.h <= 2 * n

\* C8 as stated: every element the wrapped model receives equals the element
\* supplied at that position of the same tensor.
C8_Original ==
    \A c \in Calls : Returned(c) =>
        \A i \in 1..SeqLen :
            /\ IsInteger(args[c][1].vals[i], received[c].input_ids.vals[i])
            /\ IsInteger(args[c][2].vals[i], received[c].attention_mask.vals[i])

\* C8 amended: the wrapped model receives int32 tensors of the shape given;
\* at every position of input_ids and of attention_mask, a supplied value
\* that is an integer is received unchanged, a supplied value with a fraction
\* is received truncated toward zero, and NaN is received as whatever the
\* build's cast yields.
C8_IntegersUnchanged ==
    \A c \in Calls : Returned(c) =>
        /\ received[c].input_ids = input_ids_int[c]
        /\ received[c].attention_mask = attention_mask_int[c]
        /\ \A t \in 1..2 :
              LET given == args[c][t]
                  got   == IF t = 1 THEN received[c].input_ids
                                    ELSE received[c].attention_mask
              IN  /\ got.dtype = "int32"
                  /\ got.shape = given.shape
                  /\ DOMAIN got.vals = 1..SeqLen
                  /\ \A i \in 1..SeqLen :
                        LET x == given.vals[i]
                            n == got.vals[i]
                        IN  /\ x.k = "num" /\ x.h % 2 = 0 => IsInteger(x, n)
                            /\ x.k = "num" => IsTruncation(x, n)
                            /\ x.k = "nan" => n \in NaNCasts

\* C8 witness: an invocation returned whose input_ids hold 1.0, then 1.5.
C8_Witness ==
    \E c \in Calls :
        /\ Returned(c)
        /\ args[c][1].vals[1] = Num(2)
        /\ args[c][1].vals[2] = Num(3)
        /\ received[c].input_ids.vals[1] = 1
        /\ received[c].input_ids.vals[2] = 1

=============================================================================
